---- MODULE Spec2Model ----
(***************************************************************************)
(* Trade-events finder: the browser session of App (search / analysis /    *)
(* venue slots and their in-flight requests) and the text processing of    *)
(* searchTradeEvents (delimiter split, array sniffing, fenced-block        *)
(* fallback, JSON.parse).                                                  *)
(*                                                                         *)
(* Text is a sequence of lexical tokens.  A token stands for the run of    *)
(* characters the two regular expressions and JSON.parse can tell apart:   *)
(*   "["  "]"  ","      the structural characters of an array              *)
(*   " "                a run of whitespace                                *)
(*   "x"                prose (no bracket, brace, backtick, delimiter)     *)
(*   "D"                the literal ___JSON_START___                       *)
(*   "T"                three backticks                                    *)
(*   "J"                the word json                                      *)
(*   "O1" "O2"          well-formed object literals { ... } of two events  *)
(*   "Om"               a well-formed object literal that is not an event  *)
(*   "Ot"               an object literal cut off before its closing brace *)
(*   "n"  "null"        a number literal, the literal null                 *)
(*   "1."               the narrative's list line  1. **Expo A**           *)
(***************************************************************************)
EXTENDS Integers, Sequences, FiniteSets, Bags, TLC

\* ------------------------------------------------------------------ strings

Delimiter == "D"

IsSpace(c) == c = " "

RECURSIVE TrimStart(_)
TrimStart(s) ==
  IF s # <<>> /\ IsSpace(Head(s)) THEN TrimStart(Tail(s)) ELSE s

RECURSIVE TrimEnd(_)
TrimEnd(s) ==
  IF s # <<>> /\ IsSpace(s[Len(s)]) THEN TrimEnd(SubSeq(s, 1, Len(s) - 1)) ELSE s

\* String.prototype.trim
Trim(s) == TrimEnd(TrimStart(s))

\* String.prototype.indexOf for a one-token needle, 1-based, 0 when absent
IndexOf(s, c, from) ==
  LET hits == {i \in from..Len(s) : s[i] = c}
  IN  IF hits = {} THEN 0 ELSE CHOOSE i \in hits : \A j \in hits : i <= j

\* String.prototype.split(Delimiter): every segment, in order
RECURSIVE Split(_)
Split(s) ==
  LET i == IndexOf(s, Delimiter, 1)
  IN  IF i = 0 THEN <<s>>
      ELSE <<SubSeq(s, 1, i - 1)>> \o Split(SubSeq(s, i + 1, Len(s)))

\* the position of the first non-space token at or after i (Len(s)+1 if none)
SkipWs(s, i) ==
  LET rest == {j \in i..Len(s) : ~IsSpace(s[j])}
  IN  IF rest = {} THEN Len(s) + 1 ELSE CHOOSE j \in rest : \A k \in rest : j <= k

\* --------------------------------------------------------------- JSON values

Undefined == "<undefined>"

\* the object each object-literal token denotes
ObjectOf(tok) ==
  CASE tok = "O1" -> [eventName |-> "Expo A", date |-> "May 2027", location |-> "Dubai",
                      type |-> "Exhibition", description |-> "desc A", url |-> "http://a"]
    [] tok = "O2" -> [eventName |-> "Meet B", date |-> "June 2027", location |-> "Berlin",
                      type |-> "Delegation", description |-> Undefined, url |-> Undefined]
    [] OTHER      -> [eventName |-> Undefined, date |-> "<number 5>", location |-> Undefined,
                      type |-> Undefined, description |-> Undefined, url |-> Undefined]

NoObject ==
  [eventName |-> Undefined, date |-> Undefined, location |-> Undefined,
   type |-> Undefined, description |-> Undefined, url |-> Undefined]

ObjectTokens == {"O1", "O2", "Om"}

JsonArray(items)  == [kind |-> "array",  items |-> items, obj |-> NoObject]
JsonObject(tok)   == [kind |-> "object", items |-> <<>>,  obj |-> ObjectOf(tok)]
JsonNumber        == [kind |-> "number", items |-> <<>>,  obj |-> NoObject]
JsonNull          == [kind |-> "null",   items |-> <<>>,  obj |-> NoObject]
\* the outcome of a statement that threw
Thrown            == [kind |-> "thrown", items |-> <<>>,  obj |-> NoObject]

ParseFail == [ok |-> FALSE, val |-> Thrown, next |-> 0]
ParseOk(v, n) == [ok |-> TRUE, val |-> v, next |-> n]

RECURSIVE ParseValue(_, _), ParseElements(_, _, _, _)
\* one JSON value starting at token i
ParseValue(s, i) ==
  IF i > Len(s) THEN ParseFail
  ELSE IF s[i] \in ObjectTokens THEN ParseOk(JsonObject(s[i]), i + 1)
  ELSE IF s[i] = "n" THEN ParseOk(JsonNumber, i + 1)
  ELSE IF s[i] = "null" THEN ParseOk(JsonNull, i + 1)
  ELSE IF s[i] = "[" THEN ParseElements(s, SkipWs(s, i + 1), <<>>, TRUE)
  ELSE ParseFail

\* the elements of an array after its "[": value ("," value)* "]", or "]" at once
ParseElements(s, i, acc, first) ==
  IF i > Len(s) THEN ParseFail
  ELSE IF first /\ s[i] = "]" THEN ParseOk(JsonArray(acc), i + 1)
  ELSE LET v == ParseValue(s, i)
           j == SkipWs(s, v.next)
       IN  IF ~v.ok \/ j > Len(s) THEN ParseFail
           ELSE IF s[j] = "]" THEN ParseOk(JsonArray(Append(acc, v.val)), j + 1)
           ELSE IF s[j] = "," THEN
                  ParseElements(s, SkipWs(s, j + 1), Append(acc, v.val), FALSE)
           ELSE ParseFail

\* JSON.parse: the value, or Thrown for a SyntaxError
JSONParse(s) ==
  LET r == ParseValue(s, SkipWs(s, 1))
  IN  IF r.ok /\ SkipWs(s, r.next) > Len(s) THEN r.val ELSE Thrown

\* ------------------------------------------------------- regular expressions

\* the tokens whose text begins with "{" / ends with "}"
OpensBrace(tok)  == tok \in ObjectTokens \cup {"Ot"}
ClosesBrace(tok) == tok \in ObjectTokens

NoMatch == [found |-> FALSE, text |-> <<>>]

\* where a match of /\[\s*\{[\s\S]*\}\s*\]/ that starts at token i can end:
\* "[", spaces, "{" ... then any "}" followed by spaces and "]"
ArrayPatternEnds(s, i) ==
  LET j == SkipWs(s, i + 1)
  IN  IF s[i] = "[" /\ j <= Len(s) /\ OpensBrace(s[j])
      THEN {e \in (j + 1)..Len(s) :
              /\ s[e] = "]"
              /\ \E k \in j..(e - 1) :
                   ClosesBrace(s[k]) /\ \A m \in (k + 1)..(e - 1) : IsSpace(s[m])}
      ELSE {}

\* the pattern anchored at the start of the text: /^\[\s*\{[\s\S]*\}\s*\]/
MatchArrayPattern_anchored(s) ==
  IF s # <<>> /\ ArrayPatternEnds(s, 1) # {}
  THEN LET ends == ArrayPatternEnds(s, 1)
           e == CHOOSE a \in ends : \A b \in ends : a >= b
       IN  [found |-> TRUE, text |-> SubSeq(s, 1, e)]
  ELSE NoMatch

\* jsonPart.match(/\[\s*\{[\s\S]*\}\s*\]/): leftmost start, and [\s\S]* greedy,
\* so the match runs to the last "}" "]" of the text
MatchArrayPattern(s) ==
  LET starts == {i \in 1..Len(s) : ArrayPatternEnds(s, i) # {}}
  IN  IF starts = {} THEN NoMatch
      ELSE LET i == CHOOSE a \in starts : \A b \in starts : a <= b
               ends == ArrayPatternEnds(s, i)
               e == CHOOSE a \in ends : \A b \in ends : a >= b
           IN  [found |-> TRUE, text |-> SubSeq(s, i, e)]

\* fullText.match(/```json\s*([\s\S]*?)\s*```/): the first ```json that has a
\* later ```; group 1 is lazy, so it stops at the first ``` and sheds the
\* spaces on both sides.  text is group 1.
MatchCodeBlock(s) ==
  LET opens == {i \in 1..(Len(s) - 1) :
                  s[i] = "T" /\ s[i + 1] = "J" /\ IndexOf(s, "T", i + 2) # 0}
  IN  IF opens = {} THEN NoMatch
      ELSE LET i == CHOOSE a \in opens : \A b \in opens : a <= b
               c == IndexOf(s, "T", i + 2)
           IN  [found |-> TRUE,
                text |-> TrimEnd(SubSeq(s, SkipWs(s, i + 2), c - 1))]

\* ------------------------------------------------------- searchTradeEvents

NoResultsFound == <<"x">>

\* response.text || "No results found."
FullTextOf(text) == IF text = <<>> THEN NoResultsFound ELSE text

\* parts[0] without its trim()
DisplayTextOf_untrimmed(fullText) == Split(fullText)[1]

\* parts[0].trim()
DisplayTextOf(fullText) == Trim(Split(fullText)[1])

\* parts[1] without its trim()
JsonPartOf_untrimmed(fullText) ==
  LET parts == Split(fullText)
  IN  IF Len(parts) > 1 THEN parts[2] ELSE <<>>

\* parts.length > 1 ? parts[1].trim() : ""
JsonPartOf(fullText) ==
  LET parts == Split(fullText)
  IN  IF Len(parts) > 1 THEN Trim(parts[2]) ELSE <<>>

\* let structuredEvents: EventDetail[] = []
EmptyEvents == JsonArray(<<>>)

\* JSON.parse(jsonMatch[0]) outside a try block
ParseJsonMatch_rethrows(text) == JSONParse(text)

\* try { structuredEvents = JSON.parse(jsonMatch[0]) } catch (e) { log }
ParseJsonMatch(text) ==
  LET v == JSONParse(text)
  IN  IF v = Thrown THEN EmptyEvents ELSE v

\* try { structuredEvents = JSON.parse(codeBlockMatch[1]) } catch (e) {}
ParseCodeBlock(text) ==
  LET v == JSONParse(text)
  IN  IF v = Thrown THEN EmptyEvents ELSE v

\* the fenced block looked for after the delimiter only
CodeBlockFallback_jsonPartOnly(fullText) ==
  LET codeBlockMatch == MatchCodeBlock(JsonPartOf(fullText))
  IN  IF codeBlockMatch.found /\ codeBlockMatch.text # <<>>
      THEN ParseCodeBlock(codeBlockMatch.text)
      ELSE EmptyEvents

\* the else branch: the fenced block of the whole text, when group 1 is truthy
CodeBlockFallback(fullText) ==
  LET codeBlockMatch == MatchCodeBlock(fullText)
  IN  IF codeBlockMatch.found /\ codeBlockMatch.text # <<>>
      THEN ParseCodeBlock(codeBlockMatch.text)
      ELSE EmptyEvents

\* the fenced block tried also after a failed parse of the array-shaped match
ExtractEvents_fallsBackOnFailure(jsonPart, fullText) ==
  LET jsonMatch == MatchArrayPattern(jsonPart)
  IN  IF jsonMatch.found /\ JSONParse(jsonMatch.text) # Thrown
      THEN ParseJsonMatch(jsonMatch.text)
      ELSE CodeBlockFallback(fullText)

\* the value of structuredEvents at the return statement
ExtractEvents(jsonPart, fullText) ==
  LET jsonMatch == MatchArrayPattern(jsonPart)
  IN  IF jsonMatch.found
      THEN ParseJsonMatch(jsonMatch.text)
      ELSE CodeBlockFallback(fullText)

\* location ? (filter) : (global), without the test of location.trim()
LocationInstruction_noTrim(location) ==
  IF location # <<>>
  THEN [kind |-> "only events in or near", arg |-> location]
  ELSE [kind |-> "search globally", arg |-> <<>>]

\* location && location.trim() !== "" ? `CRITICAL INSTRUCTION ... "${location}"
\* ... FILTER OUT ALL events that are not in this location.` : "Search for events globally."
LocationInstruction(location) ==
  IF location # <<>> /\ Trim(location) # <<>>
  THEN [kind |-> "only events in or near", arg |-> location]
  ELSE [kind |-> "search globally", arg |-> <<>>]

\* the prompt: the instructions the template is made of
SearchPrompt(product, location) ==
  { [kind |-> "exporter dealing in", arg |-> product],
    [kind |-> "upcoming events only", arg |-> <<>>],
    LocationInstruction(location),
    [kind |-> "two parts separated by the delimiter", arg |-> <<>>] }

\* the call searchTradeEvents(productQuery, locationQuery) and the request it sends
SearchCall(product, location) ==
  [productQuery |-> product, location |-> location,
   prompt |-> SearchPrompt(product, location)]

Rejected == [status |-> "rejected",
             value  |-> [text |-> <<>>, structuredEvents |-> EmptyEvents,
                         groundingChunks |-> <<>>]]

\* what the promise of searchTradeEvents settles to, given the model's response;
\* anything thrown inside the try block is rethrown by the outer catch
searchTradeEvents(response) ==
  LET fullText == FullTextOf(response.text)
      structuredEvents == ExtractEvents(JsonPartOf(fullText), fullText)
  IN  IF structuredEvents = Thrown THEN Rejected
      ELSE [status |-> "resolved",
            value  |-> [text |-> DisplayTextOf(fullText),
                        structuredEvents |-> structuredEvents,
                        groundingChunks |-> response.groundingChunks]]

\* ------------------------------------------------------------ the session

\* the most search (analysis) calls in flight that a run follows
MaxPending == 2

\* the most venue lookups in flight that a run follows
MaxLocates == 2

\* the most fragments the model's search response is built from
MaxFrags == 3

VARIABLES
  productQuery,         \* useState("")
  userProfile,          \* useState("")
  searchStatus,         \* 'idle' | 'loading' | 'success' | 'error'
  searchResult,         \* SearchResult | null
  analysisStatus,
  analysisResult,       \* AnalysisResult | null
  mapStatus,
  mapResult,            \* MapResult | null
  selectedEventForMap,
  selectedType,         \* the type filter
  searchCalls,          \* bag: searchTradeEvents promises not yet settled
  analysisCalls,        \* bag: analyzeStrategicFit promises not yet settled
  mapCalls,             \* bag: handleMapSearch invocations not yet finished
  crashed,              \* a render threw and the tree was unmounted
  geolocation,          \* "geolocation" in navigator
  modelTexts,           \* the texts the model may answer a search with
  locationQuery,        \* useState("")
  downloaded            \* the file the browser saved last, null before the first

vars ==
  <<productQuery, userProfile, searchStatus, searchResult, analysisStatus,
    analysisResult, mapStatus, mapResult, selectedEventForMap, selectedType,
    searchCalls, analysisCalls, mapCalls, crashed, geolocation, modelTexts,
    locationQuery, downloaded>>

inputVars == <<productQuery, userProfile>>
envVars == <<geolocation, modelTexts>>
\* what the search, analysis and venue handlers never write
restVars == <<envVars, locationQuery, downloaded>>
searchVars == <<searchStatus, searchResult, searchCalls>>
analysisVars == <<analysisStatus, analysisResult, analysisCalls>>
mapVars == <<mapStatus, mapResult, selectedEventForMap, mapCalls>>

\* a nullable slot: null is the empty sequence, a held value v is <<v>>
Null == <<>>
Some(v) == <<v>>
Held(slot) == slot[1]

\* strings the user types are sequences of characters
Products == {<<>>, <<"T", "e", "a">>}
\* the location field: empty, blank, a place, a place after a space
Locations == {<<>>, <<" ">>, <<" ", " ">>, <<"Dubai">>, <<" ", "Dubai">>}
Profiles == {"", "SME"}

\* ---- what the render derives from the state

\* the narrative lines  1. **name**  (extractLikelyEventNames)
RECURSIVE extractLikelyEventNames(_)
extractLikelyEventNames(text) ==
  IF text = <<>> THEN <<>>
  ELSE (IF Head(text) = "1." THEN <<"Expo A">> ELSE <<>>)
       \o extractLikelyEventNames(Tail(text))

\* e.type of an element of the parsed array (undefined for a non-object)
TypeOf(item) == IF item.kind = "object" THEN item.obj.type ELSE Undefined
NameOf(item) == IF item.kind = "object" THEN item.obj.eventName ELSE Undefined

\* the useMemo of uniqueTypes / filteredEvents throws: .map on a value that is
\* no array, or e.type on a null element
RenderThrows(result) ==
  LET ev == result.structuredEvents
  IN  /\ ev.kind # "null"
      /\ \/ ev.kind # "array"
         \/ \E i \in 1..Len(ev.items) : ev.items[i].kind = "null"

RECURSIVE SelectSeq2(_, _)
SelectSeq2(items, type) ==
  IF items = <<>> THEN <<>>
  ELSE (IF TypeOf(Head(items)) = type THEN <<Head(items)>> ELSE <<>>)
       \o SelectSeq2(Tail(items), type)

\* Array.from(new Set(events.map(e => e.type).filter(Boolean)))
uniqueTypes ==
  IF searchResult = Null \/ Held(searchResult).structuredEvents.kind # "array"
  THEN {}
  ELSE LET items == Held(searchResult).structuredEvents.items
       IN  {TypeOf(items[i]) : i \in 1..Len(items)} \ {Undefined}

\* selectedType === 'All' ? events : events.filter(e => e.type === selectedType)
filteredEvents ==
  IF searchResult = Null \/ Held(searchResult).structuredEvents.kind # "array"
  THEN <<>>
  ELSE LET items == Held(searchResult).structuredEvents.items
       IN  IF selectedType = "All" THEN items ELSE SelectSeq2(items, selectedType)

hasStructuredData ==
  /\ searchResult # Null
  /\ Held(searchResult).structuredEvents.kind = "array"
  /\ Len(Held(searchResult).structuredEvents.items) > 0

detectedEvents ==
  IF ~hasStructuredData /\ searchResult # Null
  THEN extractLikelyEventNames(Held(searchResult).text)
  ELSE <<>>

\* the event names that have a Locate button on screen
LocateButtons ==
  IF searchStatus = "success" /\ searchResult # Null
  THEN IF hasStructuredData
       THEN {NameOf(filteredEvents[i]) : i \in 1..Len(filteredEvents)}
       ELSE {detectedEvents[i] : i \in 1..Len(detectedEvents)}
  ELSE {}

\* the search button without the 'loading' half of its disabled condition
SearchDisabled_ignoresLoading == productQuery = <<>>

\* disabled={searchStatus === 'loading' || !productQuery}
SearchDisabled == searchStatus = "loading" \/ productQuery = <<>>

\* disabled={analysisStatus === 'loading' || !userProfile}, inside {searchResult && ...}
AnalysisDisabled ==
  searchResult = Null \/ analysisStatus = "loading" \/ userProfile = ""

\* ---- the external model

\* the analysis the model writes for a prompt (it restates the context it got)
AnalysisAnswers(call) == {<<>>, <<"plan for">> \o call.eventsText}

\* the venue text the model writes for a prompt
VenueAnswers(call) == {<<>>, <<"venue of", call.eventName>>}

\* response.candidates?.[0]?.groundingMetadata?.groundingChunks || []
GroundingChunks == {<<"web">>}

\* ---- user input

setProductQuery(v) ==
  /\ ~crashed
  /\ v # productQuery
  /\ productQuery' = v
  /\ UNCHANGED <<userProfile, searchVars, analysisVars, mapVars, selectedType,
                 crashed, restVars>>

setLocationQuery(v) ==
  /\ ~crashed
  /\ v # locationQuery
  /\ locationQuery' = v
  /\ UNCHANGED <<inputVars, searchVars, analysisVars, mapVars, selectedType,
                 crashed, envVars, downloaded>>

setUserProfile(v) ==
  /\ ~crashed
  /\ searchResult # Null
  /\ v # userProfile
  /\ userProfile' = v
  /\ UNCHANGED <<productQuery, searchVars, analysisVars, mapVars, selectedType,
                 crashed, restVars>>

setSelectedType(t) ==
  /\ ~crashed
  /\ searchStatus = "success" /\ searchResult # Null
  /\ t \in uniqueTypes \cup {"All"}
  /\ t # selectedType
  /\ selectedType' = t
  /\ UNCHANGED <<inputVars, searchVars, analysisVars, mapVars, crashed, restVars>>

\* ---- search

\* handleSearch without its setAnalysisResult(null)
handleSearch_keepsAnalysis ==
  /\ ~crashed
  /\ ~SearchDisabled
  /\ productQuery # <<>>
  /\ BagCardinality(searchCalls) < MaxPending
  /\ searchStatus' = "loading"
  /\ searchResult' = Null
  /\ mapResult' = Null
  /\ selectedType' = "All"
  /\ searchCalls' = searchCalls (+) SetToBag({SearchCall(productQuery, locationQuery)})
  /\ UNCHANGED <<inputVars, analysisStatus, analysisResult, analysisCalls, mapStatus,
                 selectedEventForMap, mapCalls, crashed, restVars>>

\* handleSearch without its early return on an empty product, behind a button
\* that is disabled only while loading
handleSearch_unguarded ==
  /\ ~crashed
  /\ searchStatus # "loading"
  /\ BagCardinality(searchCalls) < MaxPending
  /\ searchStatus' = "loading"
  /\ searchResult' = Null
  /\ analysisResult' = Null
  /\ mapResult' = Null
  /\ selectedType' = "All"
  /\ searchCalls' = searchCalls (+) SetToBag({SearchCall(productQuery, locationQuery)})
  /\ UNCHANGED <<inputVars, analysisStatus, analysisCalls, mapStatus,
                 selectedEventForMap, mapCalls, crashed, restVars>>

\* handleSearch without its setSelectedType('All')
handleSearch_keepsFilter ==
  /\ ~crashed
  /\ ~SearchDisabled
  /\ productQuery # <<>>
  /\ BagCardinality(searchCalls) < MaxPending
  /\ searchStatus' = "loading"
  /\ searchResult' = Null
  /\ analysisResult' = Null
  /\ mapResult' = Null
  /\ searchCalls' = searchCalls (+) SetToBag({SearchCall(productQuery, locationQuery)})
  /\ UNCHANGED <<inputVars, analysisStatus, analysisCalls, mapStatus,
                 selectedEventForMap, mapCalls, selectedType, crashed, restVars>>

\* handleSearch without its setSearchResult(null)
handleSearch_keepsResult ==
  /\ ~crashed
  /\ ~SearchDisabled
  /\ productQuery # <<>>
  /\ BagCardinality(searchCalls) < MaxPending
  /\ searchStatus' = "loading"
  /\ analysisResult' = Null
  /\ mapResult' = Null
  /\ selectedType' = "All"
  /\ searchCalls' = searchCalls (+) SetToBag({SearchCall(productQuery, locationQuery)})
  /\ UNCHANGED <<inputVars, searchResult, analysisStatus, analysisCalls, mapStatus,
                 selectedEventForMap, mapCalls, crashed, restVars>>

\* handleSearch up to its await
handleSearch ==
  /\ ~crashed
  /\ ~SearchDisabled
  /\ productQuery # <<>>
  /\ BagCardinality(searchCalls) < MaxPending
  /\ searchStatus' = "loading"
  /\ searchResult' = Null
  /\ analysisResult' = Null
  /\ mapResult' = Null
  /\ selectedType' = "All"
  /\ searchCalls' = searchCalls (+) SetToBag({SearchCall(productQuery, locationQuery)})
  /\ UNCHANGED <<inputVars, analysisStatus, analysisCalls, mapStatus,
                 selectedEventForMap, mapCalls, crashed, restVars>>

\* the model answers; searchTradeEvents settles; handleSearch resumes
SearchSettle(call, response) ==
  LET outcome == searchTradeEvents(response)
  IN  /\ searchCalls' = searchCalls (-) SetToBag({call})
      /\ IF outcome.status = "resolved"
         THEN /\ searchResult' = Some(outcome.value)
              /\ searchStatus' = "success"
              /\ crashed' = RenderThrows(outcome.value)
         ELSE /\ searchStatus' = "error"
              /\ UNCHANGED <<searchResult, crashed>>
      /\ UNCHANGED <<inputVars, analysisVars, mapVars, selectedType, restVars>>

SearchResolve ==
  /\ ~crashed
  /\ \E call \in BagToSet(searchCalls), text \in modelTexts, chunks \in GroundingChunks :
       SearchSettle(call, [text |-> text, groundingChunks |-> chunks])

\* a catch block that sends the request again
SearchReject_retries ==
  /\ ~crashed
  /\ searchCalls # EmptyBag
  /\ searchStatus' = "error"
  /\ UNCHANGED <<inputVars, searchResult, searchCalls, analysisVars, mapVars,
                 selectedType, crashed, restVars>>

\* a catch block that leaves the status as it is
SearchReject_staysLoading ==
  /\ ~crashed
  /\ \E call \in BagToSet(searchCalls) :
       /\ searchCalls' = searchCalls (-) SetToBag({call})
       /\ UNCHANGED <<inputVars, searchStatus, searchResult, analysisVars, mapVars,
                      selectedType, crashed, restVars>>

\* generateContent rejects: rethrown by searchTradeEvents, caught by handleSearch
SearchReject ==
  /\ ~crashed
  /\ \E call \in BagToSet(searchCalls) :
       /\ searchCalls' = searchCalls (-) SetToBag({call})
       /\ searchStatus' = "error"
       /\ UNCHANGED <<inputVars, searchResult, analysisVars, mapVars, selectedType,
                      crashed, restVars>>

\* ---- analysis

CouldNotGenerate == <<"Could not generate analysis.">>

\* what the promise of analyzeStrategicFit resolves to: response.text || "Could not ..."
analyzeStrategicFit(answer) ==
  [text |-> IF answer = <<>> THEN CouldNotGenerate ELSE answer]

\* handleAnalysis with a setMapResult(null) it does not have
handleAnalysis_clearsVenue ==
  /\ ~crashed
  /\ ~AnalysisDisabled
  /\ searchResult # Null /\ userProfile # ""
  /\ BagCardinality(analysisCalls) < MaxPending
  /\ analysisStatus' = "loading"
  /\ mapResult' = Null
  /\ analysisCalls' = analysisCalls (+)
       SetToBag({[eventsText |-> Held(searchResult).text, userProfile |-> userProfile]})
  /\ UNCHANGED <<inputVars, searchVars, analysisResult, mapStatus, selectedEventForMap,
                 mapCalls, selectedType, crashed, restVars>>

\* handleAnalysis up to its await
handleAnalysis ==
  /\ ~crashed
  /\ ~AnalysisDisabled
  /\ searchResult # Null /\ userProfile # ""
  /\ BagCardinality(analysisCalls) < MaxPending
  /\ analysisStatus' = "loading"
  /\ analysisCalls' = analysisCalls (+)
       SetToBag({[eventsText |-> Held(searchResult).text, userProfile |-> userProfile]})
  /\ UNCHANGED <<inputVars, searchVars, analysisResult, mapVars, selectedType,
                 crashed, restVars>>

AnalysisResolve ==
  /\ ~crashed
  /\ \E call \in BagToSet(analysisCalls) :
       \E answer \in AnalysisAnswers(call) :
         /\ analysisCalls' = analysisCalls (-) SetToBag({call})
         /\ analysisResult' = Some(analyzeStrategicFit(answer))
         /\ analysisStatus' = "success"
         /\ UNCHANGED <<inputVars, searchVars, mapVars, selectedType, crashed, restVars>>

AnalysisReject ==
  /\ ~crashed
  /\ \E call \in BagToSet(analysisCalls) :
       /\ analysisCalls' = analysisCalls (-) SetToBag({call})
       /\ analysisStatus' = "error"
       /\ UNCHANGED <<inputVars, searchVars, analysisResult, mapVars, selectedType,
                      crashed, restVars>>

\* ---- venue lookup

NoCoords == <<>>

\* the positions the browser may report (latitude, longitude)
Positions == {<<0, 55>>, <<25, 55>>}

LocationNotFound == <<"Location not found.">>

\* config.toolConfig.retrievalConfig.latLng of the request, NoCoords when unset:
\* if (userLat && userLng)
LatLngOf(coords) ==
  IF coords # NoCoords /\ coords[1] # 0 /\ coords[2] # 0 THEN coords ELSE NoCoords

\* what the promise of findEventLocation resolves to
findEventLocation(answer, chunks) ==
  [text |-> IF answer = <<>> THEN LocationNotFound ELSE answer,
   groundingChunks |-> chunks]

MapChunks == {<<"maps">>}

\* handleMapSearch up to its first await
handleMapSearch(eventName) ==
  /\ ~crashed
  /\ eventName \in LocateButtons
  /\ BagCardinality(mapCalls) < MaxLocates
  /\ selectedEventForMap' = eventName
  /\ mapStatus' = "loading"
  /\ mapResult' = Null
  /\ mapCalls' = mapCalls (+)
       SetToBag({[eventName |-> eventName,
                  stage |-> IF geolocation THEN "geo" ELSE "call",
                  latLng |-> NoCoords]})
  /\ UNCHANGED <<inputVars, searchVars, analysisVars, selectedType, crashed, restVars>>

\* a geolocation failure that ends the locate request in 'error'
getCurrentPosition_fatal(call, coords) ==
  /\ ~crashed
  /\ call \in BagToSet(mapCalls) /\ call.stage = "geo"
  /\ IF coords = NoCoords
     THEN /\ mapCalls' = mapCalls (-) SetToBag({call})
          /\ mapStatus' = "error"
     ELSE /\ mapCalls' = (mapCalls (-) SetToBag({call})) (+)
               SetToBag({[call EXCEPT !.stage = "call", !.latLng = LatLngOf(coords)]})
          /\ UNCHANGED mapStatus
  /\ UNCHANGED <<inputVars, searchVars, analysisVars, mapResult,
                 selectedEventForMap, selectedType, crashed, restVars>>

\* getCurrentPosition settles for one locate request (coords = NoCoords: denied,
\* unavailable or timed out, caught and logged); findEventLocation sends the request
getCurrentPosition(call, coords) ==
  /\ ~crashed
  /\ call \in BagToSet(mapCalls) /\ call.stage = "geo"
  /\ mapCalls' = (mapCalls (-) SetToBag({call})) (+)
       SetToBag({[call EXCEPT !.stage = "call", !.latLng = LatLngOf(coords)]})
  /\ UNCHANGED <<inputVars, searchVars, analysisVars, mapStatus, mapResult,
                 selectedEventForMap, selectedType, crashed, restVars>>

GeolocationSettle ==
  \E call \in BagToSet(mapCalls), coords \in Positions \cup {NoCoords} :
    getCurrentPosition(call, coords)

MapResolve ==
  /\ ~crashed
  /\ \E call \in BagToSet(mapCalls), chunks \in MapChunks :
       \E answer \in VenueAnswers(call) :
         /\ call.stage = "call"
         /\ mapCalls' = mapCalls (-) SetToBag({call})
         /\ mapResult' = Some(findEventLocation(answer, chunks))
         /\ mapStatus' = "success"
         /\ UNCHANGED <<inputVars, searchVars, analysisVars, selectedEventForMap,
                        selectedType, crashed, restVars>>

MapReject ==
  /\ ~crashed
  /\ \E call \in BagToSet(mapCalls) :
       /\ call.stage = "call"
       /\ mapCalls' = mapCalls (-) SetToBag({call})
       /\ mapStatus' = "error"
       /\ UNCHANGED <<inputVars, searchVars, analysisVars, mapResult,
                      selectedEventForMap, selectedType, crashed, restVars>>

\* ------------------------------------------------------- report generator

\* the characters [a-z0-9] with the i flag, among those the products are typed in
Alphanumerics == {"T", "e", "a", "S", "p", "i", "c", "s"}

\* substring(0, 20)
MaxNameLength == 20

\* product.replace(/[^a-z0-9]/gi, '_')
ReplaceNonAlphanumerics(product) ==
  [i \in 1..Len(product) |->
     IF product[i] \in Alphanumerics THEN product[i] ELSE "_"]

\* String.prototype.substring(0, n)
Substring0(s, n) == SubSeq(s, 1, IF Len(s) < n THEN Len(s) ELSE n)

\* the file name without the substring(0, 20)
getFileName_noTruncate(product, ext, now) ==
  <<"Kinetick_Trade_Report_", ReplaceNonAlphanumerics(product), "_", now, ".", ext>>

\* `Kinetick_Trade_Report_${safeName}_${new Date().getTime()}.${ext}`, as its parts
getFileName(product, ext, now) ==
  LET safeName == Substring0(ReplaceNonAlphanumerics(product), MaxNameLength)
  IN  <<"Kinetick_Trade_Report_", safeName, "_", now, ".", ext>>

\* .replace(/\*\*(.*?)\*\*/g, '$1'): at a "**" that has a later "**", drop both
\* and keep what lies between them up to the nearest one; go on after it
RECURSIVE RemoveBold(_)
RemoveBold(s) ==
  IF s = <<>> THEN <<>>
  ELSE IF Len(s) >= 2 /\ s[1] = "*" /\ s[2] = "*"
    THEN LET closes == {j \in 3..(Len(s) - 1) : s[j] = "*" /\ s[j + 1] = "*"}
         IN  IF closes = {} THEN <<s[1]>> \o RemoveBold(Tail(s))
             ELSE LET j == CHOOSE a \in closes : \A b \in closes : a <= b
                  IN  SubSeq(s, 3, j - 1) \o RemoveBold(SubSeq(s, j + 2, Len(s)))
  ELSE <<Head(s)>> \o RemoveBold(Tail(s))

\* .replace(/pat/g, ''): every occurrence, left to right, none overlapping
RECURSIVE RemoveAll(_, _)
RemoveAll(s, pat) ==
  IF Len(s) < Len(pat) THEN s
  ELSE IF SubSeq(s, 1, Len(pat)) = pat
    THEN RemoveAll(SubSeq(s, Len(pat) + 1, Len(s)), pat)
  ELSE <<Head(s)>> \o RemoveAll(Tail(s), pat)

cleanText(text) ==
  Trim(RemoveAll(RemoveAll(RemoveBold(text), <<"#", "#">>), <<"#", "#", "#">>))

\* the events filtered by the type selected on screen
ExportEvents_filtered == filteredEvents

\* searchResult.structuredEvents || [], and the table only if it has a length > 0
ExportEvents ==
  IF Held(searchResult).structuredEvents.kind = "array"
  THEN Held(searchResult).structuredEvents.items
  ELSE <<>>

\* evt.eventName, evt.date, evt.location, evt.type
FieldsOf(item) == IF item.kind = "object" THEN item.obj ELSE NoObject
TableRows(eventsData) ==
  [i \in 1..Len(eventsData) |->
     <<FieldsOf(eventsData[i]).eventName, FieldsOf(eventsData[i]).date,
       FieldsOf(eventsData[i]).location, FieldsOf(eventsData[i]).type>>]

NotGenerated == <<"Strategy Analysis not generated.">>

\* analysisResult?.text || "Strategy Analysis not generated."
AnalysisTextOf(result) ==
  IF result = Null \/ Held(result).text = <<>> THEN NotGenerated ELSE Held(result).text

\* createParagraphs: one paragraph per line, the line cleaned (a text is one line)
createParagraphs(text) == <<cleanText(text)>>

\* the lines of the PDF: blank lines skipped, the others through addText
PdfLines(text) == IF Trim(text) = <<>> THEN <<>> ELSE <<cleanText(text)>>

\* the document and the file name it is saved under
generateWordDocument(product, eventsText, eventsData, analysisText, now) ==
  [format |-> "Word",
   fileName |-> getFileName(product, "docx", now),
   productLine |-> <<"Product/Service: ">> \o product,
   eventRows |-> TableRows(eventsData),
   analysisLines |-> createParagraphs(analysisText),
   eventLines |-> createParagraphs(eventsText)]

generatePDFDocument(product, eventsText, eventsData, analysisText, now) ==
  [format |-> "PDF",
   fileName |-> getFileName(product, "pdf", now),
   productLine |-> cleanText(<<"Product/Service: ">> \o product),
   eventRows |-> TableRows(eventsData),
   analysisLines |-> PdfLines(analysisText),
   eventLines |-> PdfLines(eventsText)]

\* new Date().getTime() at the moment of an export
Timestamps == {1, 2}

\* the longest run of letters typed after a product
MaxPad == 7

\* the longest narrative line, in characters
MaxLine == 4

\* the Export Report panel is rendered when searchResult is held
downloadWord ==
  /\ ~crashed
  /\ searchResult # Null
  /\ \E now \in Timestamps :
       downloaded' = Some(generateWordDocument(productQuery, Held(searchResult).text,
                            ExportEvents, AnalysisTextOf(analysisResult), now))
  /\ UNCHANGED <<inputVars, searchVars, analysisVars, mapVars, selectedType,
                 crashed, envVars, locationQuery>>

downloadPDF ==
  /\ ~crashed
  /\ searchResult # Null
  /\ \E now \in Timestamps :
       downloaded' = Some(generatePDFDocument(productQuery, Held(searchResult).text,
                            ExportEvents, AnalysisTextOf(analysisResult), now))
  /\ UNCHANGED <<inputVars, searchVars, analysisVars, mapVars, selectedType,
                 crashed, envVars, locationQuery>>

\* ------------------------------------------------------- specifications

\* the search answers of a session: events after the delimiter; a narrative only
SessionTexts ==
  { <<"x", "D", "[", "O1", ",", "O2", "]">>,
    <<"1.", "x">> }

InitSession ==
  /\ productQuery = <<>>
  /\ locationQuery = <<>>
  /\ downloaded = Null
  /\ userProfile = ""
  /\ searchStatus = "idle"
  /\ searchResult = Null
  /\ analysisStatus = "idle"
  /\ analysisResult = Null
  /\ mapStatus = "idle"
  /\ mapResult = Null
  /\ selectedEventForMap = ""
  /\ selectedType = "All"
  /\ searchCalls = EmptyBag
  /\ analysisCalls = EmptyBag
  /\ mapCalls = EmptyBag
  /\ crashed = FALSE

Init ==
  /\ InitSession
  /\ geolocation \in BOOLEAN
  /\ modelTexts = SessionTexts

Next ==
  \/ \E v \in Products : setProductQuery(v)
  \/ \E v \in Profiles : setUserProfile(v)
  \/ \E t \in {"All", "Exhibition", "Delegation"} : setSelectedType(t)
  \/ handleSearch
  \/ SearchResolve
  \/ SearchReject
  \/ handleAnalysis
  \/ AnalysisResolve
  \/ AnalysisReject
  \/ \E n \in {"Expo A", "Meet B"} : handleMapSearch(n)
  \/ GeolocationSettle
  \/ MapResolve
  \/ MapReject

Spec == Init /\ [][Next]_vars

\* every model call in flight is answered or rejected in the end, and every
\* geolocation lookup succeeds, fails or times out (timeout: 5000)
Fairness ==
  /\ WF_vars(SearchResolve \/ SearchReject)
  /\ WF_vars(AnalysisResolve \/ AnalysisReject)
  /\ WF_vars(GeolocationSettle)
  /\ WF_vars(MapResolve \/ MapReject)

\* one search answer, a narrative with a list line; both kinds of browser
InitLive ==
  /\ InitSession
  /\ geolocation \in BOOLEAN
  /\ modelTexts = {<<"1.", "x">>}

\* every handler that starts or ends a request, and the fields they read
NextLive ==
  \/ \E v \in Products : setProductQuery(v)
  \/ \E v \in Profiles : setUserProfile(v)
  \/ handleSearch
  \/ SearchResolve
  \/ SearchReject
  \/ handleAnalysis
  \/ AnalysisResolve
  \/ AnalysisReject
  \/ \E n \in {"Expo A", "Meet B"} : handleMapSearch(n)
  \/ GeolocationSettle
  \/ MapResolve
  \/ MapReject

SpecLive == InitLive /\ [][NextLive]_vars /\ Fairness

\* the requests of a session and its exports
NextSlots ==
  \/ NextLive
  \/ downloadWord
  \/ downloadPDF

SpecSlots == InitLive /\ [][NextSlots]_vars

\* the pieces a search answer is put together from
Fragments ==
  { <<"x">>, <<" ">>, <<"D">>,
    <<"[", "O1", ",", " ", "O2", "]">>,
    <<"[", "O2", "]">>,
    <<"[", "Om", ",", "O1", "]">>,
    <<"[", "O1", ",", "]">>,
    <<"[", "Ot", ",", "O1", "]">>,
    <<"[", "Ot">>,
    <<"[", "]">>,
    <<"T", "J">>, <<"T">>,
    <<"T", "J", " ", "[", "O1", ",", "O2", "]", " ", "T">>,
    <<"O1">>, <<"n">>, <<"null">> }

RECURSIVE TextsUpTo(_)
TextsUpTo(n) ==
  IF n = 0 THEN {<<>>}
  ELSE LET shorter == TextsUpTo(n - 1)
       IN  shorter \cup {t \o f : t \in shorter, f \in Fragments}

\* one search answer per run, any text of up to MaxFrags fragments
InitExtract ==
  /\ InitSession
  /\ geolocation = FALSE
  /\ modelTexts \in {{t} : t \in TextsUpTo(MaxFrags)}

NextExtract ==
  \/ \E v \in Products : setProductQuery(v)
  \/ handleSearch
  \/ SearchResolve
  \/ SearchReject

SpecExtract == InitExtract /\ [][NextExtract]_vars

\* the products of the prompt scenarios
PromptProducts ==
  {<<>>, <<"Leather", " ", "Bags">>, <<"Frozen", " ", "Shrimp">>}

InitPrompt ==
  /\ InitSession
  /\ geolocation = FALSE
  /\ modelTexts = SessionTexts

\* searches with the product and the location fields edited in between
NextPrompt ==
  \/ \E v \in PromptProducts : setProductQuery(v)
  \/ \E v \in Locations : setLocationQuery(v)
  \/ handleSearch
  \/ SearchResolve
  \/ SearchReject

SpecPrompt == InitPrompt /\ [][NextPrompt]_vars

\* the product of the file-naming scenario: Tea & Spices!!
TeaAndSpices ==
  <<"T", "e", "a", " ", "&", " ", "S", "p", "i", "c", "e", "s", "!", "!">>

\* products of 0 to 14 + MaxPad characters
ExportProducts ==
  {prefix \o [i \in 1..n |-> "a"] : prefix \in {<<>>, TeaAndSpices}, n \in 0..MaxPad}

\* searches, the type filter and exports
NextExport ==
  \/ \E v \in ExportProducts : setProductQuery(v)
  \/ \E t \in {"All", "Exhibition", "Delegation"} : setSelectedType(t)
  \/ handleSearch
  \/ SearchResolve
  \/ SearchReject
  \/ downloadWord
  \/ downloadPDF

SpecExport == InitPrompt /\ [][NextExport]_vars

\* the characters of a narrative line: the two markers, a letter, a blank
MarkdownChars == {"*", "#", "x", " "}

RECURSIVE LinesUpTo(_)
LinesUpTo(n) ==
  IF n = 0 THEN {<<>>}
  ELSE LET shorter == LinesUpTo(n - 1)
       IN  shorter \cup {Append(t, c) : t \in shorter, c \in MarkdownChars}

\* one narrative per run: any line of up to MaxLine characters
InitClean ==
  /\ InitSession
  /\ geolocation = FALSE
  /\ modelTexts \in {{t} : t \in LinesUpTo(MaxLine)}

NextClean ==
  \/ \E v \in Products : setProductQuery(v)
  \/ handleSearch
  \/ SearchResolve
  \/ SearchReject
  \/ downloadWord
  \/ downloadPDF

SpecClean == InitClean /\ [][NextClean]_vars

\* =================================================================== claims

\* the venue lookups whose request to the model is in flight
InCall(calls) == {c \in BagToSet(calls) : c.stage = "call"}

\* C1: in every reachable state, a held AnalysisOutcome implies a held
\* SearchOutcome, and a held VenueOutcome implies a held SearchOutcome.
C1_OutcomesNeedSearch ==
  /\ analysisResult # Null => searchResult # Null
  /\ mapResult # Null => searchResult # Null

\* C2: the step that starts a search (issues the search call) sets
\* analysisResult and mapResult (and searchResult) to null; the step that stores
\* a search result is a later step, which consumes a call issued before it --
\* whatever the call's outcome turns out to be.
C2_ClearedBeforeStored ==
  [][ /\ BagCardinality(searchCalls') > BagCardinality(searchCalls)
           => analysisResult' = Null /\ mapResult' = Null /\ searchResult' = Null
      /\ (searchResult' # Null /\ searchResult' # searchResult)
           => /\ searchCalls # EmptyBag
              /\ BagCardinality(searchCalls') < BagCardinality(searchCalls)
              /\ analysisResult' = analysisResult /\ mapResult' = mapResult
    ]_vars

\* a search that was started over a held analysis and a held venue, and failed
C2_Witness ==
  /\ searchStatus = "error"
  /\ analysisStatus = "success" /\ analysisResult = Null
  /\ mapStatus = "success" /\ mapResult = Null

\* C3 (as claimed): while a search is outstanding, a second search can be started.
C3_SecondSearchCanStart ==
  (searchStatus = "loading" /\ productQuery # <<>> /\ ~crashed) => ENABLED handleSearch

\* C3 (amended): while a search is outstanding the search button is disabled;
\* at most one search call is in flight, and it is in flight exactly while
\* searchStatus is 'loading'.
C3_OneSearchInFlight ==
  /\ BagCardinality(searchCalls) <= 1
  /\ searchStatus = "loading" <=> searchCalls # EmptyBag
  /\ searchStatus = "loading" => ~ENABLED handleSearch

\* a search is outstanding and the product field is filled in
C3_Witness ==
  searchStatus = "loading" /\ productQuery # <<>> /\ searchCalls # EmptyBag

\* C4: when a slot's status becomes 'error', the slot's result is null.
C4_ErrorLeavesNoResult ==
  [][ /\ (searchStatus' = "error" /\ searchStatus # "error") => searchResult' = Null
      /\ (analysisStatus' = "error" /\ analysisStatus # "error") => analysisResult' = Null
      /\ (mapStatus' = "error" /\ mapStatus # "error") => mapResult' = Null
    ]_vars

\* C5, the steps: an invocation (the status turns 'loading') puts exactly one
\* request in flight and no step puts more than one; the step that turns a
\* status to 'error' takes that request away and starts none.
C5_Step ==
  /\ (searchStatus' = "loading" /\ searchStatus # "loading")
       => BagCardinality(searchCalls') = BagCardinality(searchCalls) + 1
  /\ (analysisStatus' = "loading" /\ analysisStatus # "loading")
       => BagCardinality(analysisCalls') = BagCardinality(analysisCalls) + 1
  /\ (mapStatus' = "loading" /\ mapStatus # "loading")
       => BagCardinality(mapCalls') = BagCardinality(mapCalls) + 1
  /\ BagCardinality(searchCalls') <= BagCardinality(searchCalls) + 1
  /\ BagCardinality(analysisCalls') <= BagCardinality(analysisCalls) + 1
  /\ BagCardinality(mapCalls') <= BagCardinality(mapCalls) + 1
  /\ (searchStatus' = "error" /\ searchStatus # "error")
       => /\ BagCardinality(searchCalls') = BagCardinality(searchCalls) - 1
          /\ analysisCalls' = analysisCalls /\ mapCalls' = mapCalls
  /\ (analysisStatus' = "error" /\ analysisStatus # "error")
       => /\ BagCardinality(analysisCalls') = BagCardinality(analysisCalls) - 1
          /\ searchCalls' = searchCalls /\ mapCalls' = mapCalls
  /\ (mapStatus' = "error" /\ mapStatus # "error")
       => /\ BagCardinality(mapCalls') = BagCardinality(mapCalls) - 1
          /\ Cardinality(InCall(mapCalls')) <= Cardinality(InCall(mapCalls))
          /\ searchCalls' = searchCalls /\ analysisCalls' = analysisCalls

\* C5, the states: in status 'error' no search (analysis) call is in flight, and
\* the same action can be started again from 'error'.
C5_State ==
  /\ searchStatus = "error" => searchCalls = EmptyBag
  /\ analysisStatus = "error" => analysisCalls = EmptyBag
  /\ (searchStatus = "error" /\ productQuery # <<>>) => ENABLED handleSearch
  /\ (analysisStatus = "error" /\ searchResult # Null /\ userProfile # "")
       => ENABLED handleAnalysis
  /\ (mapStatus = "error" /\ BagCardinality(mapCalls) < MaxLocates)
       => \A n \in LocateButtons : ENABLED handleMapSearch(n)

\* C5: each invocation issues exactly one call; a rejected call ends in 'error'
\* with no further call issued; from 'error' the action can be started again.
C5_OneCallNoRetry == [][C5_Step]_vars /\ []C5_State

\* all three slots have failed, and Locate buttons are on screen
C5_Witness ==
  /\ searchStatus = "success" /\ LocateButtons # {}
  /\ analysisStatus = "error" /\ mapStatus = "error"
  /\ userProfile # "" /\ mapCalls = EmptyBag

\* ---- the search answer of a run, read independently of the extractor

\* the events stored by the search that succeeded
StoredEvents == Held(searchResult).structuredEvents

RECURSIVE NoSpaces(_)
NoSpaces(s) ==
  IF s = <<>> THEN <<>>
  ELSE (IF IsSpace(Head(s)) THEN <<>> ELSE <<Head(s)>>) \o NoSpaces(Tail(s))

\* sub is "[" object ("," object)* "]", spaces allowed between the tokens
WellFormedEventArray(sub) ==
  LET core == NoSpaces(sub)
  IN  /\ sub # <<>> /\ sub[1] = "[" /\ sub[Len(sub)] = "]"
      /\ Len(core) >= 3 /\ Len(core) % 2 = 1
      /\ \A k \in 2..(Len(core) - 1) :
           IF k % 2 = 0 THEN core[k] \in ObjectTokens ELSE core[k] = ","

RECURSIVE ObjectsOf(_)
ObjectsOf(sub) ==
  IF sub = <<>> THEN <<>>
  ELSE (IF Head(sub) \in ObjectTokens THEN <<JsonObject(Head(sub))>> ELSE <<>>)
       \o ObjectsOf(Tail(sub))

\* the events a well-formed array denotes: one per object, in order, every field
ExpectedEvents(sub) == JsonArray(ObjectsOf(sub))

\* where the well-formed event arrays of a text lie
ArraySpans(s) ==
  {sp \in (1..Len(s)) \X (1..Len(s)) :
     sp[1] < sp[2] /\ WellFormedEventArray(SubSeq(s, sp[1], sp[2]))}

\* the fenced json blocks of a text, left to right: <<first, last>> of the
\* tokens between each ```json and its closing ```
RECURSIVE FencedSpans(_, _)
FencedSpans(s, from) ==
  LET opens == {i \in from..(Len(s) - 1) :
                  s[i] = "T" /\ s[i + 1] = "J" /\ IndexOf(s, "T", i + 2) # 0}
  IN  IF opens = {} THEN <<>>
      ELSE LET i == CHOOSE a \in opens : \A b \in opens : a <= b
               c == IndexOf(s, "T", i + 2)
           IN  <<(<<i + 2, c - 1>>)>> \o FencedSpans(s, c + 1)

FencedText(s, sp) == Trim(SubSeq(s, sp[1], sp[2]))

\* the text after the first delimiter; up to the next delimiter
AfterDelimiter(s) ==
  LET i == IndexOf(s, Delimiter, 1)
  IN  IF i = 0 THEN <<>> ELSE SubSeq(s, i + 1, Len(s))

SecondSegment(s) ==
  LET after == AfterDelimiter(s)
      j == IndexOf(after, Delimiter, 1)
  IN  IF j = 0 THEN after ELSE SubSeq(after, 1, j - 1)

\* an array-shaped substring exists after the delimiter
ArrayShaped(full) == MatchArrayPattern(JsonPartOf(full)).found

\* neither the array-shaped substring nor the fenced block parses
NothingParses(full) ==
  LET m == MatchArrayPattern(JsonPartOf(full))
      c == MatchCodeBlock(full)
  IN  /\ m.found => JSONParse(m.text) = Thrown
      /\ c.found => JSONParse(c.text) = Thrown

\* C6: whatever text the model returns, searchTradeEvents resolves: the step
\* in which the answer arrives ends in searchStatus = 'success' with the
\* narrative stored, and with no events when nothing in the text parses.
C6_ExtractionNeverFails ==
  [][ SearchResolve =>
        /\ searchStatus' = "success"
        /\ searchResult' # Null
        /\ \A t \in modelTexts :
             /\ Held(searchResult').text = Trim(Split(FullTextOf(t))[1])
             /\ NothingParses(FullTextOf(t))
                  => Held(searchResult').structuredEvents = EmptyEvents
    ]_vars

\* a search succeeded on a text whose array-shaped part does not parse
C6_Witness ==
  /\ searchStatus = "success"
  /\ \E t \in modelTexts : ArrayShaped(t) /\ NothingParses(t)
  /\ StoredEvents = EmptyEvents

\* the case of C7: an array-shaped substring after the delimiter that does not
\* parse, and a fenced json block holding a well-formed array
C7_Case(full) ==
  LET m == MatchArrayPattern(JsonPartOf(full))
      blocks == FencedSpans(full, 1)
  IN  /\ m.found /\ JSONParse(m.text) = Thrown
      /\ blocks # <<>> /\ WellFormedEventArray(FencedText(full, blocks[1]))

\* C7 (as claimed): in that case the extractor returns the fenced block's events.
C7_FallbackAfterFailedParse ==
  searchStatus = "success" =>
    \A t \in modelTexts :
      C7_Case(FullTextOf(t)) =>
        StoredEvents =
          ExpectedEvents(FencedText(FullTextOf(t), FencedSpans(FullTextOf(t), 1)[1]))

\* C7 (amended): the fenced-block fallback runs only when jsonPart holds no
\* array-shaped substring; when the substring exists and fails to parse, the
\* events are empty, fenced block or not.
C7_NoFallbackAfterFailedParse ==
  searchStatus = "success" =>
    \A t \in modelTexts :
      LET m == MatchArrayPattern(JsonPartOf(FullTextOf(t)))
      IN  (m.found /\ JSONParse(m.text) = Thrown) => StoredEvents = EmptyEvents

C7_Witness ==
  /\ searchStatus = "success"
  /\ \E t \in modelTexts : C7_Case(FullTextOf(t))
  /\ StoredEvents = EmptyEvents

\* every well-formed event array of the text lies inside a fenced json block
ArrayOnlyInFence(full) ==
  LET blocks == FencedSpans(full, 1)
  IN  /\ ArraySpans(full) # {}
      /\ \A sp \in ArraySpans(full) :
           \E k \in 1..Len(blocks) : blocks[k][1] <= sp[1] /\ sp[2] <= blocks[k][2]

\* C8 (as claimed): no array-shaped substring after the delimiter and a
\* well-formed array only inside a fenced json block: the extractor returns
\* that block's events.
C8_AnyFencedArrayRecovered ==
  searchStatus = "success" =>
    \A t \in modelTexts :
      (~ArrayShaped(FullTextOf(t)) /\ ArrayOnlyInFence(FullTextOf(t))) =>
        \E sp \in ArraySpans(FullTextOf(t)) :
          StoredEvents = ExpectedEvents(SubSeq(FullTextOf(t), sp[1], sp[2]))

\* C8 (amended): no array-shaped substring after the delimiter and the first
\* fenced json block of the full text holds a well-formed array: the extractor
\* returns that block's events, in order.
C8_FirstFencedArrayRecovered ==
  searchStatus = "success" =>
    \A t \in modelTexts :
      LET full == FullTextOf(t)
          blocks == FencedSpans(full, 1)
      IN  (/\ ~ArrayShaped(full)
           /\ blocks # <<>>
           /\ WellFormedEventArray(FencedText(full, blocks[1])))
          => /\ StoredEvents = ExpectedEvents(FencedText(full, blocks[1]))
             /\ Len(StoredEvents.items) >= 1

\* the first fenced block lies in the narrative, before the delimiter
C8_Witness ==
  /\ searchStatus = "success"
  /\ \E t \in modelTexts :
       LET blocks == FencedSpans(t, 1)
       IN  /\ ~ArrayShaped(t)
           /\ blocks # <<>> /\ WellFormedEventArray(FencedText(t, blocks[1]))
           /\ IndexOf(t, Delimiter, 1) > blocks[1][2]
  /\ Len(StoredEvents.items) = 2

\* C9 (as claimed): a well-formed event array embedded anywhere in the text
\* after the delimiter (up to the next delimiter, if there is one) is returned,
\* same length, same order, every field.
C9_EmbeddedArrayReturned ==
  searchStatus = "success" =>
    \A t \in modelTexts :
      LET seg == SecondSegment(FullTextOf(t))
      IN  \A sp \in ArraySpans(seg) :
            StoredEvents = ExpectedEvents(SubSeq(seg, sp[1], sp[2]))

\* "[" then "{" opens at a / "}" then "]" closes at e
OpensAt(s, a) == s[a] = "[" /\ SkipWs(s, a + 1) <= Len(s) /\ OpensBrace(s[SkipWs(s, a + 1)])
ClosesAt(s, e) ==
  /\ s[e] = "]"
  /\ \E k \in 1..(e - 1) : ClosesBrace(s[k]) /\ \A m \in (k + 1)..(e - 1) : IsSpace(s[m])

\* C9 (amended): a well-formed event array in the text between the first
\* delimiter and the next one (or the end), with no "[" "{" before it and no
\* "}" "]" after it in that text, is returned: same length, same order, every
\* field.
C9_SoleEmbeddedArrayReturned ==
  searchStatus = "success" =>
    \A t \in modelTexts :
      LET seg == SecondSegment(FullTextOf(t))
      IN  \A sp \in ArraySpans(seg) :
            (/\ \A a \in 1..(sp[1] - 1) : ~OpensAt(seg, a)
             /\ \A e \in (sp[2] + 1)..Len(seg) : ~ClosesAt(seg, e))
            => StoredEvents = ExpectedEvents(SubSeq(seg, sp[1], sp[2]))

\* the two events are returned from an array that follows prose
C9_Witness ==
  /\ searchStatus = "success"
  /\ \E t \in modelTexts :
       LET seg == SecondSegment(t)
       IN  \E sp \in ArraySpans(seg) :
             /\ sp[1] > 1 /\ seg[1] = "x"
             /\ StoredEvents = ExpectedEvents(SubSeq(seg, sp[1], sp[2]))
  /\ Len(StoredEvents.items) = 2
  /\ StoredEvents.items[1].obj.eventName = "Expo A"
  /\ StoredEvents.items[2].obj.eventName = "Meet B"

\* C10: the events of a held SearchOutcome are a sequence, and the render's
\* derivation of event types and filtered events over them never throws.
C10_EventsIsSequence ==
  /\ searchResult # Null => Held(searchResult).structuredEvents.kind = "array"
  /\ ~crashed

\* ---- the EventRecord shape (EventDetail)

\* typeof v === 'string' for a field value of a parsed object
IsString(v) == v \notin {Undefined, "<number 5>"}

\* eventName, date, location, type are present as strings
IsEventRecord(item) ==
  /\ item.kind = "object"
  /\ IsString(item.obj.eventName) /\ IsString(item.obj.date)
  /\ IsString(item.obj.location)  /\ IsString(item.obj.type)

\* C11: every element of the events returned by the extractor has eventName,
\* date, location and type present as strings; a parsed element that lacks one
\* of them, or holds a non-string value for it, is not among the events.
C11_EventsAreRecords ==
  (searchResult # Null /\ StoredEvents.kind = "array") =>
    \A i \in 1..Len(StoredEvents.items) : IsEventRecord(StoredEvents.items[i])

\* ---- the split at the delimiter, read independently of trim() and split()

\* where s has a character that is not whitespace
Ink(s) == {k \in 1..Len(s) : ~IsSpace(s[k])}

\* s from its first to its last character that is not whitespace
Trimmed(s) ==
  IF Ink(s) = {} THEN <<>>
  ELSE SubSeq(s, CHOOSE a \in Ink(s) : \A k \in Ink(s) : a <= k,
                 CHOOSE b \in Ink(s) : \A k \in Ink(s) : b >= k)

\* r is s without its leading and its trailing whitespace
IsTrimOf(r, s) == r = Trimmed(s)

DelimiterCount(s) == Cardinality({i \in 1..Len(s) : s[i] = Delimiter})

\* s from token k on, without the whitespace that touches the delimiter at i
RECURSIVE DropAdjacentWsFrom(_, _, _)
DropAdjacentWsFrom(s, k, i) ==
  IF k > Len(s) THEN <<>>
  ELSE LET lo == IF k < i THEN k ELSE i + 1
           hi == IF k < i THEN i - 1 ELSE k
           touches == k # i /\ \A m \in lo..hi : IsSpace(s[m])
       IN  (IF touches THEN <<>> ELSE <<s[k]>>) \o DropAdjacentWsFrom(s, k + 1, i)

DropAdjacentWs(s) == DropAdjacentWsFrom(s, 1, IndexOf(s, Delimiter, 1))

\* C12: for a response text without the delimiter, the structured part is
\* empty, the search succeeds (no error), and the narrative stored is the full
\* text without its leading and trailing whitespace.
C12_NoDelimiterAllNarrative ==
  [][ SearchResolve =>
        \A t \in modelTexts :
          DelimiterCount(FullTextOf(t)) = 0 =>
            /\ JsonPartOf(FullTextOf(t)) = <<>>
            /\ searchStatus' = "success" /\ searchResult' # Null
            /\ IsTrimOf(Held(searchResult').text, FullTextOf(t))
    ]_vars

\* a narrative with whitespace on both sides and no delimiter was stored
C12_Witness ==
  /\ searchStatus = "success"
  /\ \E t \in modelTexts :
       DelimiterCount(t) = 0 /\ Len(t) = 3 /\ IsSpace(t[1]) /\ IsSpace(t[3])
  /\ Len(Held(searchResult).text) = 1

\* C13: for a response text with the delimiter exactly once, the narrative is
\* the text before the delimiter trimmed, the structured part is the text after
\* it trimmed, and narrative + delimiter + structured part is the trimmed
\* original without the whitespace that touches the delimiter.
C13_SplitRoundTrips ==
  searchStatus = "success" =>
    \A t \in modelTexts :
      LET full == FullTextOf(t)
          i == IndexOf(full, Delimiter, 1)
          displayPart == Held(searchResult).text
          jsonPart == JsonPartOf(full)
      IN  DelimiterCount(full) = 1 =>
            /\ IsTrimOf(displayPart, SubSeq(full, 1, i - 1))
            /\ IsTrimOf(jsonPart, SubSeq(full, i + 1, Len(full)))
            /\ DropAdjacentWs(Trimmed(full)) = displayPart \o <<Delimiter>> \o jsonPart

\* the delimiter occurs once, touched by whitespace, and events follow it
C13_Witness ==
  /\ searchStatus = "success"
  /\ \E t \in modelTexts :
       LET i == IndexOf(t, Delimiter, 1)
       IN  /\ DelimiterCount(t) = 1 /\ 1 < i /\ i < Len(t)
           /\ IsSpace(t[i - 1]) \/ IsSpace(t[i + 1])
           /\ JsonPartOf(t) # <<>>
  /\ StoredEvents.kind = "array" /\ Len(StoredEvents.items) >= 1

\* ---- the search prompt

\* the location has a character that is not whitespace
NonBlank(location) == \E i \in 1..Len(location) : ~IsSpace(location[i])

LocationKinds == {"only events in or near", "search globally"}

\* C14: the prompt of every search request holds the location-filter
\* instruction, naming the location as supplied, if and only if the location
\* is non-blank; otherwise it holds the global-search instruction; exactly one
\* of the two instructions is in the prompt.
C14_LocationInstructionIffNonBlank ==
  \A c \in BagToSet(searchCalls) :
    LET filter == [kind |-> "only events in or near", arg |-> c.location]
        global == [kind |-> "search globally", arg |-> <<>>]
    IN  /\ filter \in c.prompt <=> NonBlank(c.location)
        /\ global \in c.prompt <=> ~NonBlank(c.location)
        /\ Cardinality({i \in c.prompt : i.kind \in LocationKinds}) = 1

\* a search is in flight for a location of whitespace only
C14_Witness ==
  \E c \in BagToSet(searchCalls) :
    /\ c.location # <<>> /\ ~NonBlank(c.location)
    /\ [kind |-> "search globally", arg |-> <<>>] \in c.prompt

\* ---- the venue lookup's coordinates

\* the request findEventLocation sends for a locate request whose position is known
RequestOf(call, latLng) == [call EXCEPT !.stage = "call", !.latLng = latLng]

\* the part of a bag of locate requests that is at one stage
AtStage(calls, stage) ==
  [c \in {d \in DOMAIN calls : d.stage = stage} |-> calls[c]]

\* C15: every pair of coordinates the browser reports, 0 included, is carried
\* by the venue request as its latitude/longitude; only a lookup without
\* coordinates sends a request without them.
C15_CoordinatesPassedThrough ==
  [][ \A call \in BagToSet(mapCalls) :
        /\ \A coords \in Positions :
             getCurrentPosition(call, coords)
               => RequestOf(call, coords) \in BagToSet(mapCalls')
        /\ getCurrentPosition(call, NoCoords)
             => RequestOf(call, NoCoords) \in BagToSet(mapCalls')
    ]_vars

\* C16, the step of a failed geolocation lookup: the venue request of that
\* locate request is sent, once, without coordinates, and mapStatus stays as it is.
C16_FailureStep ==
  \A call \in BagToSet(mapCalls) :
    getCurrentPosition(call, NoCoords) =>
      /\ mapStatus' = mapStatus /\ mapResult' = mapResult
      /\ BagCardinality(mapCalls') = BagCardinality(mapCalls)
      /\ BagCardinality(AtStage(mapCalls', "call"))
           = BagCardinality(AtStage(mapCalls, "call")) + 1
      /\ CopiesIn(RequestOf(call, NoCoords), mapCalls')
           = CopiesIn(RequestOf(call, NoCoords), mapCalls) + 1

\* C16, 'error': mapStatus turns to 'error' only in a step that takes away a
\* venue request that was sent (the venue call itself was rejected).
C16_ErrorStep ==
  (mapStatus' = "error" /\ mapStatus # "error") =>
    /\ BagCardinality(AtStage(mapCalls', "call"))
         = BagCardinality(AtStage(mapCalls, "call")) - 1
    /\ AtStage(mapCalls', "geo") = AtStage(mapCalls, "geo")

\* C16, no geolocation in the browser: every locate request is sent at once,
\* without coordinates.
C16_Unavailable ==
  ~geolocation =>
    \A c \in BagToSet(mapCalls) : c.stage = "call" /\ c.latLng = NoCoords

\* C16: a geolocation failure is not fatal for a locate request.
C16_GeolocationFailureNotFatal ==
  [][C16_FailureStep]_vars /\ [][C16_ErrorStep]_vars /\ []C16_Unavailable

\* in a browser with geolocation, a venue request is in flight without
\* coordinates while the locate request is still loading
C16_Witness ==
  /\ geolocation /\ mapStatus = "loading"
  /\ \E c \in BagToSet(mapCalls) : c.stage = "call" /\ c.latLng = NoCoords

\* ---- exports

\* the parts of a file name other than the sanitized product are as claimed
NameFrame(doc) ==
  LET name == doc.fileName
  IN  /\ Len(name) = 6
      /\ name[1] = "Kinetick_Trade_Report_" /\ name[3] = "_"
      /\ name[4] \in Nat /\ name[5] = "."
      /\ name[6] = (IF doc.format = "Word" THEN "docx" ELSE "pdf")

\* C17 (as claimed): the file name of every export is
\* Kinetick_Trade_Report_<sanitized>_<timestamp>.<ext>, the sanitized part made
\* of alphanumeric characters only, at most 20 of them.
C17_NameOnlyAlphanumerics ==
  downloaded # Null =>
    /\ NameFrame(Held(downloaded))
    /\ Len(Held(downloaded).fileName[2]) <= 20
    /\ \A i \in 1..Len(Held(downloaded).fileName[2]) :
         Held(downloaded).fileName[2][i] \in Alphanumerics

\* C17 (amended): the sanitized part is the first 20 characters of the product
\* with every character that is not alphanumeric replaced by "_"; the timestamp
\* is a number and the extension is docx for Word, pdf for PDF.
C17_NameFromProduct ==
  [][ downloaded' # downloaded =>
        LET safeName == Held(downloaded').fileName[2]
        IN  /\ NameFrame(Held(downloaded'))
            /\ Len(safeName) = (IF Len(productQuery) < 20 THEN Len(productQuery) ELSE 20)
            /\ \A i \in 1..Len(safeName) :
                 safeName[i] = (IF productQuery[i] \in Alphanumerics
                                THEN productQuery[i] ELSE "_")
    ]_vars

\* a PDF was saved for a product of more than 20 characters, some of them replaced
C17_Witness ==
  /\ downloaded # Null
  /\ Held(downloaded).format = "PDF"
  /\ Len(Held(downloaded).fileName[2]) = 20
  /\ \E i \in 1..20 : Held(downloaded).fileName[2][i] = "_"
  /\ Len(productQuery) > 20

\* a line holds "##" or "**"
HasMarker(line) ==
  \E i \in 1..(Len(line) - 1) :
    \/ line[i] = "#" /\ line[i + 1] = "#"
    \/ line[i] = "*" /\ line[i + 1] = "*"

\* C18: no line of an export document (narrative, analysis, product line of
\* the PDF) holds a literal "##" or "**" after cleanText.
C18_NoMarkersLeft ==
  downloaded # Null =>
    /\ \A i \in 1..Len(Held(downloaded).eventLines) :
         ~HasMarker(Held(downloaded).eventLines[i])
    /\ \A i \in 1..Len(Held(downloaded).analysisLines) :
         ~HasMarker(Held(downloaded).analysisLines[i])

\* C19: an export happens only while a SearchOutcome is held, and its table
\* has one row per structured event of that outcome, in the outcome's order,
\* whatever type filter is selected.
C19_ExportListsAllEvents ==
  [][ downloaded' # downloaded =>
        /\ searchResult # Null
        /\ LET rows == Held(downloaded').eventRows
               ev == StoredEvents
           IN  IF ev.kind = "array"
               THEN /\ Len(rows) = Len(ev.items)
                    /\ \A i \in 1..Len(rows) :
                         rows[i] = <<ev.items[i].obj.eventName, ev.items[i].obj.date,
                                     ev.items[i].obj.location, ev.items[i].obj.type>>
               ELSE rows = <<>>
    ]_vars

\* a report with both events was saved and the filter shows one of them
C19_Witness ==
  /\ downloaded # Null /\ searchResult # Null
  /\ selectedType = "Exhibition" /\ Len(filteredEvents) = 1
  /\ Len(Held(downloaded).eventRows) = 2
  /\ Held(downloaded).eventRows[2][1] = "Meet B"

\* ---- termination of requests

Settled == {"success", "error"}

\* C20: with every model call answered or rejected in the end and every
\* geolocation lookup settled in the end, a search, an analysis and a locate
\* request that is 'loading' reaches 'success' or 'error'.
C20_LoadingEnds ==
  /\ (searchStatus = "loading") ~> (searchStatus \in Settled)
  /\ (analysisStatus = "loading") ~> (analysisStatus \in Settled)
  /\ (mapStatus = "loading") ~> (mapStatus \in Settled)

\* all three requests were started and all three have ended, nothing in flight
C20_Witness ==
  /\ searchStatus = "error" /\ analysisStatus = "success" /\ mapStatus = "success"
  /\ searchCalls = EmptyBag /\ analysisCalls = EmptyBag /\ mapCalls = EmptyBag
  /\ geolocation

\* ---- the result slots

\* C21: a step that starts or completes an analysis leaves the search and the
\* venue slot as they are; a step that starts or completes a locate request
\* leaves the search and the analysis slot as they are; an export leaves every
\* slot as it is.
C21_SlotsIndependent ==
  [][ /\ analysisCalls' # analysisCalls
           => UNCHANGED <<searchResult, searchStatus, mapResult, mapStatus>>
      /\ mapCalls' # mapCalls
           => UNCHANGED <<searchResult, searchStatus, analysisResult, analysisStatus>>
      /\ downloaded' # downloaded
           => UNCHANGED <<searchResult, searchStatus, analysisResult, analysisStatus,
                          mapResult, mapStatus>>
    ]_vars

\* all three outcomes are held and a report was saved
C21_Witness ==
  /\ searchResult # Null /\ analysisResult # Null /\ mapResult # Null
  /\ downloaded # Null /\ Held(downloaded).analysisLines # <<NotGenerated>>

\* C22: whenever an AnalysisOutcome and a SearchOutcome are both held, the
\* analysis was written for the narrative of that SearchOutcome (an analysis
\* the model wrote restates the narrative it was given).
C22_AnalysisOfHeldSearch ==
  (analysisResult # Null /\ searchResult # Null
     /\ Held(analysisResult).text # CouldNotGenerate)
    => Held(analysisResult).text = <<"plan for">> \o Held(searchResult).text

\* C23: whenever a VenueOutcome is held, it is the answer to the locate
\* request for the event named in selectedEventForMap (a venue text the model
\* wrote names the event it was asked about).
C23_VenueOfSelectedEvent ==
  (mapResult # Null /\ Held(mapResult).text # LocationNotFound)
    => Held(mapResult).text = <<"venue of", selectedEventForMap>>

\* C24: searchStatus = 'success' implies a held searchResult, and searchStatus
\* 'idle', 'loading' or 'error' implies searchResult is null.
C24_SearchSlotConsistent ==
  /\ searchStatus \in {"idle", "loading", "success", "error"}
  /\ searchStatus = "success" => searchResult # Null
  /\ searchStatus \in {"idle", "loading", "error"} => searchResult = Null

\* a search failed after an earlier one had succeeded (a venue was looked up)
C24_Witness ==
  /\ searchStatus = "error" /\ searchResult = Null
  /\ selectedEventForMap # "" /\ mapStatus = "error"

\* C25: analysisStatus = 'success' implies a held analysisResult, and
\* mapStatus = 'success' implies a held mapResult.
C25_StatusImpliesResult ==
  /\ analysisStatus = "success" => analysisResult # Null
  /\ mapStatus = "success" => mapResult # Null

\* C26: guarded handlers are no-ops: with an empty product handleSearch takes
\* no step; with no search result held, or with an empty user profile,
\* handleAnalysis takes no step; with no search result held neither download
\* handler takes a step. A handler that takes no step issues no call and
\* leaves every status and result slot as it was.
C26_GuardedHandlersAreNoOps ==
  /\ productQuery = <<>> => ~ENABLED handleSearch
  /\ (searchResult = Null \/ userProfile = "") => ~ENABLED handleAnalysis
  /\ searchResult = Null => (~ENABLED downloadWord /\ ~ENABLED downloadPDF)

\* after a failed search the product was emptied and a profile typed: the
\* search is guarded by the product, the analysis and the downloads by the
\* missing result
C26_Witness ==
  /\ searchStatus = "error" /\ searchResult = Null
  /\ productQuery = <<>> /\ userProfile # ""

\* ---- a text with several delimiters, read independently of split()

\* the position of the last delimiter of s (0 when it has none)
LastDelimiter(s) ==
  LET hits == {i \in 1..Len(s) : s[i] = Delimiter}
  IN  IF hits = {} THEN 0 ELSE CHOOSE i \in hits : \A j \in hits : i >= j

\* what s says: its tokens other than delimiters and whitespace, in order
ContentOf(s) == SelectSeq(s, LAMBDA c : c # Delimiter /\ ~IsSpace(c))

\* C27: when the response text holds the delimiter more than once, nothing of
\* it is lost: the narrative and the structured part searched by the extractor
\* together hold all its content, and a well-formed array after the last
\* delimiter is what the search stores as its events.
C27_NothingLostAcrossDelimiters ==
  searchStatus = "success" =>
    \A t \in modelTexts :
      LET full == FullTextOf(t)
          tail == Trimmed(SubSeq(full, LastDelimiter(full) + 1, Len(full)))
      IN  DelimiterCount(full) > 1 =>
            /\ ContentOf(full) =
                 ContentOf(Held(searchResult).text) \o ContentOf(JsonPartOf(full))
            /\ WellFormedEventArray(tail) => StoredEvents = ExpectedEvents(tail)

\* ---- the type filter, read independently of filter()

\* the k-th smallest member of a set of indices
KthOf(S, k) == CHOOSE i \in S : Cardinality({j \in S : j < i}) = k - 1

\* sub is items at some of its indices, in their order
IsSubsequenceOf(sub, items) ==
  \E S \in SUBSET (1..Len(items)) :
    /\ Len(sub) = Cardinality(S)
    /\ \A k \in 1..Len(sub) : sub[k] = items[KthOf(S, k)]

FilterValid ==
  searchResult # Null =>
    LET items == StoredEvents.items
    IN  /\ \/ selectedType = "All"
           \/ \E i \in 1..Len(items) : TypeOf(items[i]) = selectedType
        /\ IsSubsequenceOf(filteredEvents, items)
        /\ selectedType = "All" => filteredEvents = items

\* C28: the type filter is valid for the result shown: the step that starts a
\* search leaves selectedType at 'All'; whenever a search result is held,
\* selectedType is 'All' or the type of one of its events, filteredEvents is
\* an order-preserving subsequence of its events, and it is all of them when
\* selectedType is 'All'.
C28_FilterValidForResult ==
  /\ []FilterValid
  /\ [][searchCalls' # searchCalls /\ searchStatus' = "loading"
          => selectedType' = "All"]_vars

\* a result of two events is on screen, filtered down to the second one
C28_Witness ==
  /\ searchStatus = "success" /\ searchResult # Null
  /\ Len(StoredEvents.items) = 2
  /\ selectedType = "Delegation"
  /\ Len(filteredEvents) = 1 /\ NameOf(filteredEvents[1]) = "Meet B"

====
